---- MODULE Spec2Model ----
(***************************************************************************)
(* Model of packages/messages/src/browser/notifications.ts: the            *)
(* Notifications store, the notification view built by                     *)
(* createNotificationElement (show listener, close timer, action buttons)  *)
(* and the ProgressNotificationImpl handle.                                *)
(*                                                                         *)
(* A view is numbered by the order of its createNotificationElement call.  *)
(* The DOM is modelled by what the code looks at: the children of the      *)
(* notifications container in document order, whether a view's element is  *)
(* still inside the DocumentFragment it was built in, and the innerText of *)
(* its text and progress paragraphs.  The browser's timers are a list      *)
(* indexed by the handle window.setTimeout returned; time is counted in    *)
(* the unit of the timeout property.                                       *)
(***************************************************************************)
EXTENDS Integers, Sequences, FiniteSets, TLC

(* Bounds of the model. *)
MaxViews == 2       \* calls of createNotificationElement
MaxTimers == 3      \* calls of window.setTimeout
MaxTimeout == 1     \* largest timeout property
MaxActions == 1     \* longest actions array
MaxTotal == 1       \* largest work.total
MaxWork == 50       \* largest work.total where the percentage is explored

Ids == {"a", "b"}
Texts == {"T"}
Messages == {"", "m"}
PROGRESS == "progress"
Icons == {"info", PROGRESS}

(* An optional value: <<>> is undefined, <<x>> is x. *)
Undefined == <<>>
Some(x) == <<x>>
Optional(S) == {Undefined} \cup {Some(x) : x \in S}

(* interface NotificationProperties; onTimeout and the actions' fn are     *)
(* opaque callbacks whose invocations are counted per view.                *)
NotificationProperties(icons, actions, timeouts) ==
    [id : Ids, icon : icons, text : Texts, actions : actions,
     timeout : timeouts]

(* The argument of ProgressNotification.update. *)
WorkItems == [done : 0..MaxTotal, total : 0..MaxTotal]
Items(messages) == [message : messages, work : Optional(WorkItems)]

(* The inputs of Spec, which explores the timers: every timeout, plain     *)
(* icons, the empty update.                                                *)
TimedProperties ==
    NotificationProperties({"info"}, 0..MaxActions, Optional(0..MaxTimeout))
PlainItems == {[message |-> Undefined, work |-> Undefined]}

(* The inputs of SpecUpdate, which explores the texts: every icon and      *)
(* every item, no actions and no timeout.                                  *)
UntimedProperties == NotificationProperties(Icons, {0}, {Undefined})
AllItems == Items(Optional(Messages))

(* The inputs of SpecProgress, which explores the percentage: progress     *)
(* notifications with one id, and as work every part of a small total and  *)
(* of the total MaxWork.                                                   *)
ProgressProperties ==
    {p \in NotificationProperties({PROGRESS}, {0}, {Undefined}) : p.id = "a"}
ProgressTotals == (1..4) \cup {MaxWork}
ProgressItems ==
    [message : {Undefined},
     work : {Some(w) : w \in {x \in [done : 0..MaxWork, total : ProgressTotals] :
                                 x.done <= x.total}}]

VARIABLES
    properties,       \* properties[v]: the properties view v was built from
    handles,          \* views wrapped in a ProgressNotificationImpl
    fragment,         \* views whose element is still in its DocumentFragment
    container,        \* children of the notifications container, in order
    textOf,           \* innerText of the view's text paragraph
    progressOf,       \* innerText of the view's progress paragraph
    closeTimer,       \* the view's closeTimer variable, 0 when undefined
    timers,           \* timers[h]: the timer window.setTimeout returned as h
    listeners,        \* views whose listener is registered with onShow
    onTimeoutCalls,   \* invocations of properties.onTimeout per view
    actionCalls,      \* invocations of an action's fn per view
    lastOp            \* the last call or callback that ran

vars == <<properties, handles, fragment, container, textOf, progressOf,
          closeTimer, timers, listeners, onTimeoutCalls,
          actionCalls, lastOp>>

Views == 1..Len(properties)
inContainer(v) == \E i \in 1..Len(container) : container[i] = v

Max(a, b) == IF a > b THEN a ELSE b

Range(s) == {s[i] : i \in 1..Len(s)}

(* A record of lastOp: the call, the view it was made on, whether it got   *)
(* past its guard, and the item of an update.                              *)
OpWith(name, v, eff, arg) == [op |-> name, view |-> v, eff |-> eff, arg |-> arg]
Op(name, v, eff) == OpWith(name, v, eff, Undefined)

----------------------------------------------------------------------------
(* DOM lookups *)

(* The views in the container whose element carries the id, in order. *)
WithId(cont, props, id) ==
    SelectSeq(cont, LAMBDA v : props[v].id = id)

(* document.getElementById('notification-container-' + id): the first      *)
(* element in document order, 0 for null.                                  *)
getContainerElement(cont, props, id) ==
    LET s == WithId(cont, props, id) IN IF s = <<>> THEN 0 ELSE s[1]

(* document.getElementById('notification-text-' + id) *)
getTextElement(cont, props, id) == getContainerElement(cont, props, id)

(* document.getElementById('notification-progress-' + id): only a view     *)
(* built with icon === PROGRESS has the paragraph.                         *)
getProgressElement(cont, props, id) ==
    LET s == SelectSeq(cont, LAMBDA v : props[v].id = id /\ props[v].icon = PROGRESS)
    IN  IF s = <<>> THEN 0 ELSE s[1]

(* element.remove() *)
remove(cont, v) == SelectSeq(cont, LAMBDA w : w # v)

----------------------------------------------------------------------------
(* Timers *)

Timer(v, t) == [view |-> v, remaining |-> t, state |-> "pending"]

(* window.clearTimeout(h) *)
clearTimeout(ts, h) ==
    IF h \in 1..Len(ts) /\ ts[h].state = "pending"
    THEN [ts EXCEPT ![h] = [@ EXCEPT !.state = "cleared", !.remaining = 0]]
    ELSE ts

(* Mutant: the test is only that a timeout is given. *)
hasTimeout_Given(p) == p.timeout # Undefined

(* properties.timeout && properties.timeout > 0 *)
hasTimeout(p) == p.timeout # Undefined /\ p.timeout[1] # 0 /\ p.timeout[1] > 0

----------------------------------------------------------------------------
(* The show listener of a view and the emitter *)

(* Mutant: the listener arms a timer without clearing the one before. *)
onShowListener_NoClear(st, props, v, id) ==
    IF props[v].id # id
    THEN st
    ELSE LET armed == Append(st.timers, Timer(v, props[v].timeout[1]))
         IN  [timers |-> armed,
              closeTimer |-> [st.closeTimer EXCEPT ![v] = Len(armed)]]

(* Mutant: the listener arms a timer on the first ShownEvent only. *)
onShowListener_Once(st, props, v, id) ==
    IF props[v].id # id \/ st.closeTimer[v] # 0
    THEN st
    ELSE LET armed == Append(st.timers, Timer(v, props[v].timeout[1]))
         IN  [timers |-> armed,
              closeTimer |-> [st.closeTimer EXCEPT ![v] = Len(armed)]]

(* Mutant: the listener does not compare the id of the event with its own. *)
onShowListener_AnyId(st, props, v, id) ==
    LET cleared == IF st.closeTimer[v] # 0
                   THEN clearTimeout(st.timers, st.closeTimer[v])
                   ELSE st.timers
        armed == Append(cleared, Timer(v, props[v].timeout[1]))
    IN  [timers |-> armed,
         closeTimer |-> [st.closeTimer EXCEPT ![v] = Len(armed)]]

(* The listener createNotificationElement registers with this.onShow, run  *)
(* for view v on a ShownEvent carrying id; st holds timers and closeTimer. *)
onShowListener(st, props, v, id) ==
    IF props[v].id # id
    THEN st
    ELSE LET cleared == IF st.closeTimer[v] # 0
                        THEN clearTimeout(st.timers, st.closeTimer[v])
                        ELSE st.timers
             armed == Append(cleared, Timer(v, props[v].timeout[1]))
         IN  [timers |-> armed,
              closeTimer |-> [st.closeTimer EXCEPT ![v] = Len(armed)]]

(* Emitter.fire(id): every registered listener runs, in the order of       *)
(* registration, which is the order of the views.                          *)
RECURSIVE Emitter_fire(_, _, _, _)
Emitter_fire(st, props, ls, id) ==
    IF ls = {}
    THEN st
    ELSE LET v == CHOOSE w \in ls : \A u \in ls : w <= u
         IN  Emitter_fire(onShowListener(st, props, v, id), props, ls \ {v}, id)

(* Emitter.event(listener): the listener of view v is registered. *)
Emitter_event(ls, v) == ls \cup {v}

(* Emitter.dispose(): the registered listeners are dropped. *)
Emitter_dispose(ls) == {}

(* this.onShowEmitter.fire(id) with timers ts and closeTimer variables ct *)
fire(ts, ct, props, ls, id) ==
    Emitter_fire([timers |-> ts, closeTimer |-> ct], props, ls, id)

----------------------------------------------------------------------------
(* ProgressNotificationImpl.update: the texts it writes *)

(* The numbers of update are IEEE 754 doubles.  A positive finite double   *)
(* is [frac, exp] and stands for 1.frac * 2^exp in binary: frac is the 52  *)
(* fraction bits of the significand as four digits of 13 bits, the most    *)
(* significant first.  Every result is rounded to nearest, ties to even.   *)
Digit == 8192

Pow2(k) ==
    <<1, 2, 4, 8, 16, 32, 64, 128, 256, 512, 1024, 2048, 4096, 8192, 16384,
      32768, 65536, 131072, 262144, 524288, 1048576, 2097152, 4194304,
      8388608, 16777216, 33554432, 67108864, 134217728, 268435456,
      536870912, 1073741824>>[k + 1]

(* The e with 2^e <= n / d < 2^(e + 1), for integers n, d > 0. *)
RECURSIVE exponent(_, _)
exponent(n, d) ==
    IF n >= 2 * d THEN exponent(n, 2 * d) + 1
    ELSE IF n < d THEN exponent(2 * n, d) - 1
    ELSE 0

(* 1.frac + 2^-52 when up, else 1.frac; 1.11..1 rounds up to 2. *)
round(frac, exp, up) ==
    LET c == IF up THEN 1 ELSE 0
        s4 == frac[4] + c
        s3 == frac[3] + s4 \div Digit
        s2 == frac[2] + s3 \div Digit
        s1 == frac[1] + s2 \div Digit
    IN  [frac |-> <<s1 % Digit, s2 % Digit, s3 % Digit, s4 % Digit>>,
         exp |-> exp + s1 \div Digit]

(* n / d for integers n, d > 0: long division, a digit at a time. *)
divide(n, d) ==
    LET e == exponent(n, d)
        nn == IF e < 0 THEN n * Pow2(0 - e) ELSE n
        dd == IF e > 0 THEN d * Pow2(e) ELSE d
        r0 == nn - dd
        r1 == (r0 * Digit) % dd
        r2 == (r1 * Digit) % dd
        r3 == (r2 * Digit) % dd
        r4 == (r3 * Digit) % dd
        frac == <<(r0 * Digit) \div dd, (r1 * Digit) \div dd,
                  (r2 * Digit) \div dd, (r3 * Digit) \div dd>>
    IN  round(frac, e, 2 * r4 > dd \/ (2 * r4 = dd /\ frac[4] % 2 = 1))

(* x * k for a double x and an integer k, 1 <= k < 256: the product of the *)
(* significand by k has s more bits than the significand, which are        *)
(* shifted out at the low end.                                             *)
times(x, k) ==
    LET p4 == x.frac[4] * k
        p3 == x.frac[3] * k + p4 \div Digit
        p2 == x.frac[2] * k + p3 \div Digit
        p1 == x.frac[1] * k + p2 \div Digit
        p0 == k + p1 \div Digit
        s == CHOOSE i \in 0..8 : Pow2(i) <= p0 /\ p0 < Pow2(i + 1)
        d0 == p0 % Pow2(s)
        d1 == p1 % Digit
        d2 == p2 % Digit
        d3 == p3 % Digit
        d4 == p4 % Digit
        frac == <<(d0 * Digit + d1) \div Pow2(s),
                  ((d1 % Pow2(s)) * Digit + d2) \div Pow2(s),
                  ((d2 % Pow2(s)) * Digit + d3) \div Pow2(s),
                  ((d3 % Pow2(s)) * Digit + d4) \div Pow2(s)>>
        dropped == d4 % Pow2(s)
    IN  round(frac, x.exp + s,
              2 * dropped > Pow2(s) \/ (2 * dropped = Pow2(s) /\ frac[4] % 2 = 1))

(* Math.floor(x) for a double x below 2^26 *)
floor(x) ==
    IF x.exp < 0 THEN 0
    ELSE IF x.exp <= 13 THEN Pow2(x.exp) + x.frac[1] \div Pow2(13 - x.exp)
    ELSE Pow2(x.exp) + x.frac[1] * Pow2(x.exp - 13)
                     + x.frac[2] \div Pow2(26 - x.exp)

(* `${Math.floor(progressRate.done / progressRate.total * 100)}%`: 0 / 0   *)
(* is NaN, n / 0 is Infinity and 0 / d is 0.                               *)
progressText(work) ==
    IF work.total = 0
    THEN (IF work.done = 0 THEN "NaN" ELSE "Infinity") \o "%"
    ELSE IF work.done = 0 THEN "0%"
    ELSE ToString(floor(times(divide(work.done, work.total), 100))) \o "%"

(* this.properties.text + (item.message ? ': ' + item.message : '') *)
mainText(text, item) ==
    text \o (IF item.message # Undefined /\ item.message[1] # ""
             THEN ": " \o item.message[1]
             ELSE "")

----------------------------------------------------------------------------
Init ==
    /\ properties = <<>>
    /\ handles = {}
    /\ fragment = {}
    /\ container = <<>>
    /\ textOf = <<>>
    /\ progressOf = <<>>
    /\ closeTimer = <<>>
    /\ timers = <<>>
    /\ listeners = {}
    /\ onTimeoutCalls = <<>>
    /\ actionCalls = <<>>
    /\ lastOp = Op("constructor", 0, TRUE)

(* Notifications.createNotificationElement(p): the new view is numbered    *)
(* Len(properties) + 1; its element is built inside a DocumentFragment.    *)
createNotificationElement(p) ==
    /\ Len(properties) < MaxViews
    /\ properties' = Append(properties, p)
    /\ textOf' = Append(textOf, p.text)
    /\ progressOf' = Append(progressOf, "")
    /\ listeners' = IF hasTimeout(p)
                    THEN Emitter_event(listeners, Len(properties) + 1)
                    ELSE listeners
    /\ onTimeoutCalls' = Append(onTimeoutCalls, 0)
    /\ actionCalls' = Append(actionCalls, 0)

(* Mutant: show() puts the new node in the place of the nodes with its id. *)
show_Replaces(p) ==
    /\ createNotificationElement(p)
    /\ LET v == Len(properties) + 1
           st == fire(timers, Append(closeTimer, 0), properties', listeners', p.id)
       IN  /\ Len(st.timers) <= MaxTimers
           /\ container' =
                 Append(SelectSeq(container, LAMBDA w : properties[w].id # p.id), v)
           /\ timers' = st.timers
           /\ closeTimer' = st.closeTimer
           /\ lastOp' = Op("show", v, TRUE)
    /\ UNCHANGED <<handles, fragment>>

(* Notifications.show(p) *)
show(p) ==
    /\ createNotificationElement(p)
    /\ LET v == Len(properties) + 1
           st == fire(timers, Append(closeTimer, 0), properties', listeners', p.id)
       IN  /\ Len(st.timers) <= MaxTimers
           /\ container' = Append(container, v)
           /\ timers' = st.timers
           /\ closeTimer' = st.closeTimer
           /\ lastOp' = Op("show", v, TRUE)
    /\ UNCHANGED <<handles, fragment>>

(* Mutant: create() appends the node and fires the event, as show() does. *)
create_Shows(p) ==
    /\ createNotificationElement(p)
    /\ LET v == Len(properties) + 1
           st == fire(timers, Append(closeTimer, 0), properties', listeners', p.id)
       IN  /\ Len(st.timers) <= MaxTimers
           /\ handles' = handles \cup {v}
           /\ container' = Append(container, v)
           /\ timers' = st.timers
           /\ closeTimer' = st.closeTimer
           /\ lastOp' = Op("create", v, TRUE)
    /\ UNCHANGED fragment

(* Notifications.create(p) *)
create(p) ==
    /\ createNotificationElement(p)
    /\ LET v == Len(properties) + 1
       IN  /\ handles' = handles \cup {v}
           /\ fragment' = fragment \cup {v}
           /\ closeTimer' = Append(closeTimer, 0)
           /\ lastOp' = Op("create", v, TRUE)
    /\ UNCHANGED <<container, timers>>

(* Mutant: dispose() also empties the container. *)
dispose_Clears ==
    /\ listeners' = Emitter_dispose(listeners)
    /\ container' = <<>>
    /\ lastOp' = Op("dispose", 0, TRUE)
    /\ UNCHANGED <<properties, handles, fragment, textOf,
                   progressOf, closeTimer, timers,
                   onTimeoutCalls, actionCalls>>

(* Notifications.dispose() *)
dispose ==
    /\ listeners' = Emitter_dispose(listeners)
    /\ lastOp' = Op("dispose", 0, TRUE)
    /\ UNCHANGED <<properties, handles, fragment, container, textOf,
                   progressOf, closeTimer, timers,
                   onTimeoutCalls, actionCalls>>

(* Mutant: show() does not look for the node. *)
ProgressNotificationImpl_show_Unguarded(v) ==
    /\ v \in handles
    /\ LET id == properties[v].id
           st == fire(timers, closeTimer, properties, listeners, id)
       IN  /\ Len(st.timers) <= MaxTimers
           /\ container' = IF v \in fragment THEN Append(container, v)
                                             ELSE container
           /\ fragment' = fragment \ {v}
           /\ timers' = st.timers
           /\ closeTimer' = st.closeTimer
           /\ lastOp' = Op("handle.show", v, TRUE)
    /\ UNCHANGED <<properties, handles, textOf, progressOf, listeners,
                   onTimeoutCalls, actionCalls>>

(* ProgressNotificationImpl.show() of the handle of view v *)
ProgressNotificationImpl_show(v) ==
    /\ v \in handles
    /\ LET id == properties[v].id
           st == fire(timers, closeTimer, properties, listeners, id)
       IN  IF getContainerElement(container, properties, id) = 0
           THEN /\ Len(st.timers) <= MaxTimers
                /\ container' = IF v \in fragment THEN Append(container, v)
                                                  ELSE container
                /\ fragment' = fragment \ {v}
                /\ timers' = st.timers
                /\ closeTimer' = st.closeTimer
                /\ lastOp' = Op("handle.show", v, TRUE)
           ELSE /\ lastOp' = Op("handle.show", v, FALSE)
                /\ UNCHANGED <<container, fragment, timers, closeTimer>>
    /\ UNCHANGED <<properties, handles, textOf, progressOf, listeners,
                   onTimeoutCalls, actionCalls>>

(* ProgressNotificationImpl.close() of the handle of view v *)
ProgressNotificationImpl_close(v) ==
    /\ v \in handles
    /\ LET element == getContainerElement(container, properties, properties[v].id)
       IN  IF element = 0
           THEN /\ lastOp' = Op("handle.close", v, FALSE)
                /\ UNCHANGED container
           ELSE /\ lastOp' = Op("handle.close", v, TRUE)
                /\ container' = remove(container, element)
    /\ UNCHANGED <<properties, handles, fragment, textOf, progressOf,
                   closeTimer, timers, listeners,
                   onTimeoutCalls, actionCalls>>

(* Mutant: update() appends to the text the element displays. *)
ProgressNotificationImpl_update_Cumulative(v, item) ==
    /\ v \in handles
    /\ LET id == properties[v].id
           textElement == getTextElement(container, properties, id)
           progressElement == getProgressElement(container, properties, id)
       IN  IF textElement # 0
           THEN /\ progressOf' = IF item.work # Undefined /\ progressElement # 0
                                 THEN [progressOf EXCEPT ![progressElement] =
                                          progressText(item.work[1])]
                                 ELSE progressOf
                /\ textOf' = [textOf EXCEPT ![textElement] =
                                 mainText(textOf[textElement], item)]
                /\ lastOp' = OpWith("handle.update", v, TRUE, Some(item))
           ELSE /\ lastOp' = OpWith("handle.update", v, FALSE, Some(item))
                /\ UNCHANGED <<textOf, progressOf>>
    /\ UNCHANGED <<properties, handles, fragment, container, closeTimer,
                   timers, listeners, onTimeoutCalls, actionCalls>>

(* Mutant: update() writes to the node of its own view, displayed or not. *)
ProgressNotificationImpl_update_OwnNode(v, item) ==
    /\ v \in handles
    /\ progressOf' = IF item.work # Undefined /\ properties[v].icon = PROGRESS
                     THEN [progressOf EXCEPT ![v] = progressText(item.work[1])]
                     ELSE progressOf
    /\ textOf' = [textOf EXCEPT ![v] = mainText(properties[v].text, item)]
    /\ lastOp' = OpWith("handle.update", v, inContainer(v), Some(item))
    /\ UNCHANGED <<properties, handles, fragment, container, closeTimer,
                   timers, listeners, onTimeoutCalls, actionCalls>>

(* ProgressNotificationImpl.update(item) of the handle of view v *)
ProgressNotificationImpl_update(v, item) ==
    /\ v \in handles
    /\ LET id == properties[v].id
           textElement == getTextElement(container, properties, id)
           progressElement == getProgressElement(container, properties, id)
       IN  IF textElement # 0
           THEN /\ progressOf' = IF item.work # Undefined /\ progressElement # 0
                                 THEN [progressOf EXCEPT ![progressElement] =
                                          progressText(item.work[1])]
                                 ELSE progressOf
                /\ textOf' = [textOf EXCEPT ![textElement] =
                                 mainText(properties[v].text, item)]
                /\ lastOp' = OpWith("handle.update", v, TRUE, Some(item))
           ELSE /\ lastOp' = OpWith("handle.update", v, FALSE, Some(item))
                /\ UNCHANGED <<textOf, progressOf>>
    /\ UNCHANGED <<properties, handles, fragment, container, closeTimer,
                   timers, listeners, onTimeoutCalls, actionCalls>>

(* Mutant: the click listener leaves the timer alone. *)
click_KeepsTimer(v) ==
    /\ v \in Range(container)
    /\ properties[v].actions > 0
    /\ actionCalls' = [actionCalls EXCEPT ![v] = @ + 1]
    /\ container' = remove(container, v)
    /\ fragment' = fragment \ {v}
    /\ lastOp' = Op("click", v, TRUE)
    /\ UNCHANGED <<properties, handles, textOf, progressOf, closeTimer,
                   timers, listeners, onTimeoutCalls>>

(* The click listener of an action button of view v; the user can click    *)
(* a button of an element that is displayed.                               *)
click(v) ==
    /\ v \in Range(container)
    /\ properties[v].actions > 0
    /\ timers' = IF closeTimer[v] # 0 THEN clearTimeout(timers, closeTimer[v])
                                      ELSE timers
    /\ actionCalls' = [actionCalls EXCEPT ![v] = @ + 1]
    /\ container' = remove(container, v)
    /\ fragment' = fragment \ {v}
    /\ lastOp' = Op("click", v, TRUE)
    /\ UNCHANGED <<properties, handles, textOf, progressOf, closeTimer,
                   listeners, onTimeoutCalls>>

(* Mutant: the timer callback invokes onTimeout and leaves the node. *)
timeout_NoClose(h) ==
    /\ h \in 1..Len(timers)
    /\ timers[h].state = "pending"
    /\ timers[h].remaining = 0
    /\ LET v == timers[h].view
       IN  /\ timers' = [timers EXCEPT ![h].state = "fired"]
           /\ onTimeoutCalls' = [onTimeoutCalls EXCEPT ![v] = @ + 1]
           /\ lastOp' = Op("timeout", v, TRUE)
    /\ UNCHANGED <<properties, handles, fragment, container, textOf,
                   progressOf, closeTimer, listeners, actionCalls>>

(* The callback given to window.setTimeout, run for timer h when its delay *)
(* has elapsed.                                                            *)
timeout(h) ==
    /\ h \in 1..Len(timers)
    /\ timers[h].state = "pending"
    /\ timers[h].remaining = 0
    /\ LET v == timers[h].view
       IN  /\ timers' = [timers EXCEPT ![h].state = "fired"]
           /\ onTimeoutCalls' = [onTimeoutCalls EXCEPT ![v] = @ + 1]
           /\ container' = remove(container, v)
           /\ fragment' = fragment \ {v}
           /\ lastOp' = Op("timeout", v, TRUE)
    /\ UNCHANGED <<properties, handles, textOf, progressOf, closeTimer,
                   listeners, actionCalls>>

(* One unit of time passes. *)
tick ==
    /\ \E h \in 1..Len(timers) :
          timers[h].state = "pending" /\ timers[h].remaining > 0
    /\ timers' = [h \in 1..Len(timers) |->
                    IF timers[h].state = "pending"
                    THEN [timers[h] EXCEPT !.remaining = Max(0, @ - 1)]
                    ELSE timers[h]]
    /\ lastOp' = Op("tick", 0, TRUE)
    /\ UNCHANGED <<properties, handles, fragment, container, textOf,
                   progressOf, closeTimer, listeners, onTimeoutCalls,
                   actionCalls>>

Next ==
    \/ \E p \in TimedProperties : show(p)
    \/ \E p \in TimedProperties : create(p)
    \/ dispose
    \/ \E v \in Views : ProgressNotificationImpl_show(v)
    \/ \E v \in Views : ProgressNotificationImpl_close(v)
    \/ \E v \in Views, item \in PlainItems : ProgressNotificationImpl_update(v, item)
    \/ \E v \in Views : click(v)
    \/ \E h \in 1..Len(timers) : timeout(h)
    \/ tick

Spec == Init /\ [][Next]_vars

(* The event loop runs a timer whose delay has elapsed, and time passes. *)
FairSpec ==
    /\ Spec
    /\ WF_vars(tick)
    /\ \A h \in 1..MaxTimers : WF_vars(timeout(h))

NextUpdate ==
    \/ \E p \in UntimedProperties : show(p)
    \/ \E p \in UntimedProperties : create(p)
    \/ \E v \in Views : ProgressNotificationImpl_show(v)
    \/ \E v \in Views : ProgressNotificationImpl_close(v)
    \/ \E v \in Views, item \in AllItems : ProgressNotificationImpl_update(v, item)

SpecUpdate == Init /\ [][NextUpdate]_vars

NextProgress ==
    \/ \E p \in ProgressProperties : create(p)
    \/ \E v \in Views : ProgressNotificationImpl_show(v)
    \/ \E v \in Views, item \in ProgressItems :
          ProgressNotificationImpl_update(v, item)

SpecProgress == Init /\ [][NextProgress]_vars

----------------------------------------------------------------------------
(* What the claims speak of *)

(* The timeout of view v is a number above 0; it is 0 or undefined. *)
timed(v) ==
    \E t \in 1..(MaxTimeout + 1) : properties[v].timeout = Some(t)
untimed(v) ==
    properties[v].timeout = Undefined \/ properties[v].timeout = Some(0)
idOf(v) == properties[v].id

(* The handles of the pending timers whose callback belongs to view v. *)
pendingOf(v) ==
    {h \in 1..Len(timers) : timers[h].view = v /\ timers[h].state = "pending"}

(* The step was the call or callback name on view v. *)
Did(name, v) == lastOp'.op = name /\ lastOp'.view = v

(* The step fired a ShownEvent carrying id. *)
ShownEvent(id) ==
    /\ lastOp'.op \in {"show", "handle.show"}
    /\ lastOp'.eff
    /\ properties'[lastOp'.view].id = id

(* C1, as claimed: a displayed notification with a timeout above 0 has a  *)
(* pending timer, which is what removes it when nobody clicks or closes.   *)
(* A handle built before dispose() and shown after it is displayed with no *)
(* timer, and stays.                                                       *)
C1_ShownIsArmed ==
    \A v \in Views : timed(v) /\ inContainer(v) => pendingOf(v) # {}

(* C1, amended to a notification whose show listener is registered when it *)
(* is shown.  A ShownEvent for its id arms a timer for the full timeout,   *)
(* whatever time has passed since the node was built; while the node is    *)
(* displayed the timer stays pending, or is replaced by a later event; its *)
(* delay runs down with time only; when it has run down the callback runs, *)
(* invokes onTimeout once and removes the node; and a displayed node with  *)
(* a pending timer is eventually removed.                                  *)
C1_TimeoutFires ==
    /\ [][\A v \in Views' :
            timed(v)' /\ v \in listeners' /\ ShownEvent(idOf(v)') =>
                /\ closeTimer'[v] > Len(timers)
                /\ timers'[closeTimer'[v]] =
                     [view |-> v, remaining |-> properties'[v].timeout[1],
                      state |-> "pending"]]_vars
    /\ [][\A v \in Views :
            inContainer(v) /\ pendingOf(v) # {} =>
                ~inContainer(v)' \/ pendingOf(v)' # {}]_vars
    /\ [][\A h \in 1..Len(timers) :
            /\ timers[h].state = "pending" /\ timers'[h].state = "pending" =>
                 \/ timers'[h].remaining = timers[h].remaining
                 \/ /\ lastOp'.op = "tick"
                    /\ timers'[h].remaining = timers[h].remaining - 1
            /\ timers[h].state = "pending" /\ timers'[h].state = "fired" =>
                 /\ timers[h].remaining = 0
                 /\ onTimeoutCalls'[timers[h].view] =
                      onTimeoutCalls[timers[h].view] + 1
                 /\ ~inContainer(timers[h].view)']_vars
    /\ \A v \in 1..MaxViews :
            (v \in Views /\ inContainer(v) /\ pendingOf(v) # {})
                ~> (v \in Views /\ ~inContainer(v))

(* The timer of a shown handle ran down and fired: onTimeout was invoked   *)
(* once and the node is gone.  It was armed after the timer of another     *)
(* notification, which fired too.                                          *)
C1_Witness ==
    \E v \in handles :
        /\ lastOp = Op("timeout", v, TRUE)
        /\ onTimeoutCalls[v] = 1
        /\ ~inContainer(v) /\ v \notin fragment
        /\ closeTimer[v] = Len(timers)
        /\ timers[closeTimer[v]].state = "fired"
        /\ \E h \in 1..Len(timers) :
              timers[h].view # v /\ timers[h].state = "fired" /\ h < closeTimer[v]

(* C2: a notification whose timeout is 0 or undefined never has a timer    *)
(* and its onTimeout is never invoked; once displayed, its node leaves the *)
(* container only by a click on one of its buttons or by a close().        *)
C2_NoTimerWithoutTimeout ==
    /\ [](\A v \in Views : untimed(v) =>
            /\ closeTimer[v] = 0
            /\ \A h \in 1..Len(timers) : timers[h].view # v
            /\ onTimeoutCalls[v] = 0)
    /\ [][\A v \in Views :
            untimed(v) /\ inContainer(v) /\ ~inContainer(v)' =>
                \/ Did("click", v)
                \/ lastOp'.op = "handle.close" /\ idOf(lastOp'.view) = idOf(v)]_vars

(* A notification with timeout 0 is still displayed after the timer of     *)
(* another notification has elapsed and fired.                             *)
C2_Witness ==
    \E v \in Views :
        /\ properties[v].timeout = Some(0)
        /\ inContainer(v)
        /\ lastOp.op = "timeout"
        /\ lastOp.view # v

(* C3: a click on an action button of a displayed notification removes    *)
(* its node and cancels its pending timer, and a cancelled timer never     *)
(* runs its callback afterwards.                                           *)
C3_ClickCancelsTimer ==
    /\ [][\A v \in Views : Did("click", v) =>
            /\ ~inContainer(v)'
            /\ \A h \in pendingOf(v) : timers'[h].state = "cleared"
            /\ onTimeoutCalls' = onTimeoutCalls]_vars
    /\ [][\A h \in 1..Len(timers) :
            timers[h].state = "cleared" => timers'[h].state = "cleared"]_vars

(* A button was clicked while the timer of its notification was pending,   *)
(* with its delay already elapsed.                                         *)
C3_Witness ==
    \E v \in Views :
        /\ lastOp.op = "click" /\ lastOp.view = v
        /\ closeTimer[v] # 0
        /\ timers[closeTimer[v]].state = "cleared"
        /\ onTimeoutCalls[v] = 0

(* C4: close() on a displayed notification whose timer is pending cancels  *)
(* that timer.  The code leaves it pending.                                *)
C4_CloseCancelsTimer ==
    [][\A v \in Views :
        Did("handle.close", v) /\ inContainer(v) /\ ~inContainer(v)' =>
            pendingOf(v)' = {}]_vars

(* C5: show() of a handle while a node with its id is displayed changes    *)
(* nothing: no node is appended and no timer is cleared or armed.  When no *)
(* node with the id is displayed, it moves the content of its fragment to  *)
(* the end of the container, and a node it moved there is then the only    *)
(* node with the id.  A handle's node is never in the container twice.     *)
C5_HandleShowIdempotent ==
    /\ [][\A v \in Views : Did("handle.show", v) =>
            IF WithId(container, properties, idOf(v)) # <<>>
            THEN UNCHANGED <<properties, handles, fragment, container, textOf,
                             progressOf, closeTimer, timers, listeners,
                             onTimeoutCalls, actionCalls>>
            ELSE /\ container' = IF v \in fragment THEN Append(container, v)
                                                   ELSE container
                 /\ v \in fragment =>
                        WithId(container', properties', idOf(v)) = <<v>>]_vars
    /\ [](\A v \in Views :
            Cardinality({i \in 1..Len(container) : container[i] = v}) <= 1)

(* show() was called on a handle whose node is displayed and whose timer   *)
(* has run down since the first show(); the timer was not armed again.     *)
C5_Witness ==
    \E v \in handles :
        /\ lastOp = Op("handle.show", v, FALSE)
        /\ inContainer(v)
        /\ closeTimer[v] # 0
        /\ timers[closeTimer[v]].state = "pending"
        /\ timers[closeTimer[v]].remaining = 0
        /\ Len(timers) = 1

(* C6, as claimed: a ShownEvent for the id of a notification whose timer   *)
(* is pending, delivered to at least one listener, cancels that timer and  *)
(* arms a new one for the full timeout.  dispose() drops the listener of   *)
(* the notification, and then its timer stays as it was.                   *)
C6_RearmOnShow ==
    [][\A v \in Views : \A h \in pendingOf(v) :
        ShownEvent(idOf(v)) /\ listeners' # {} =>
            /\ timers'[h].state = "cleared"
            /\ closeTimer'[v] > Len(timers)
            /\ timers'[closeTimer'[v]] =
                 [view |-> v, remaining |-> properties[v].timeout[1],
                  state |-> "pending"]]_vars

(* C6, amended: the same for a notification whose show listener is still   *)
(* registered, that is when dispose() was not called since it was built.   *)
C6_RearmOnShowWhileRegistered ==
    [][\A v \in Views : \A h \in pendingOf(v) :
        ShownEvent(idOf(v)) /\ v \in listeners' =>
            /\ timers'[h].state = "cleared"
            /\ closeTimer'[v] > Len(timers)
            /\ timers'[closeTimer'[v]] =
                 [view |-> v, remaining |-> properties[v].timeout[1],
                  state |-> "pending"]]_vars

(* A notification was shown again by an event for its id: its first timer  *)
(* is cleared and its second one is pending for the full timeout.          *)
C6_Witness ==
    \E v \in Views :
        /\ lastOp.op \in {"show", "handle.show"} /\ lastOp.eff
        /\ idOf(lastOp.view) = idOf(v)
        /\ v \in listeners
        /\ Len(timers) = 2
        /\ timers[1] = [view |-> v, remaining |-> 0, state |-> "cleared"]
        /\ timers[2] = [view |-> v, remaining |-> properties[v].timeout[1],
                        state |-> "pending"]
        /\ closeTimer[v] = 2

(* C7: create() changes neither the container nor the timers and leaves    *)
(* the new node in its fragment; the node of a handle enters the container *)
(* only by the show() of that handle.                                      *)
C7_CreateIsDetached ==
    /\ [][lastOp'.op = "create" =>
            /\ container' = container
            /\ timers' = timers
            /\ closeTimer' = Append(closeTimer, 0)
            /\ lastOp'.view \in fragment']_vars
    /\ [][\A v \in handles' :
            v \notin Range(container) /\ v \in Range(container') =>
                Did("handle.show", v)]_vars

(* A handle was created for the id of a displayed notification whose timer *)
(* has run down: the timer was not armed again and the new view has none.  *)
C7_Witness ==
    \E v, w \in Views :
        /\ lastOp = Op("create", v, TRUE)
        /\ timed(v) /\ closeTimer[v] = 0 /\ v \in fragment
        /\ w # v /\ idOf(w) = idOf(v) /\ inContainer(w)
        /\ closeTimer[w] # 0
        /\ timers[closeTimer[w]].state = "pending"
        /\ timers[closeTimer[w]].remaining = 0

(* C8: show() on a handle whose node was displayed and then removed makes  *)
(* a node with its id displayed again.  The code appends the fragment it   *)
(* emptied at the first show(), so nothing is displayed.                   *)
C8_ShowAfterRemoval ==
    [][\A v \in handles :
        Did("handle.show", v) /\ v \notin fragment /\ ~inContainer(v) =>
            WithId(container', properties', idOf(v)) # <<>>]_vars

(* C9: update() and close() on a handle while no node with its id is       *)
(* displayed change nothing.  A node still in its fragment has the text it *)
(* was built with and no progress value, and so it has when show() puts it *)
(* in the container: an update() made before is not kept for it.           *)
C9_AbsentIsNoOp ==
    /\ [][/\ lastOp'.op \in {"handle.update", "handle.close"}
          /\ WithId(container, properties, idOf(lastOp'.view)) = <<>>
          => UNCHANGED <<properties, handles, fragment, container, textOf,
                         progressOf, closeTimer, timers, listeners,
                         onTimeoutCalls, actionCalls>>]_vars
    /\ [](\A v \in fragment :
            textOf[v] = properties[v].text /\ progressOf[v] = "")
    /\ [][\A v \in handles :
            /\ Did("handle.show", v)
            /\ v \in fragment
            /\ WithId(container, properties, idOf(v)) = <<>>
            =>  /\ inContainer(v)'
                /\ textOf'[v] = properties[v].text
                /\ progressOf'[v] = ""]_vars

(* update() with a message and work was called on a progress handle that  *)
(* was never shown, and was dropped.                                       *)
C9_Witness ==
    \E v \in handles :
        /\ lastOp.op = "handle.update" /\ lastOp.view = v /\ ~lastOp.eff
        /\ lastOp.arg[1].message = Some("m")
        /\ lastOp.arg[1].work # Undefined
        /\ properties[v].icon = PROGRESS
        /\ v \in fragment
        /\ textOf[v] = properties[v].text /\ progressOf[v] = ""

(* C10: after update(item) on a handle with text T while a node with its   *)
(* id is displayed, the text of that node is T followed by ": " and the    *)
(* message when the item has a message that is not empty, and T otherwise, *)
(* whatever the node displayed before.                                     *)
C10_TextFromItem ==
    lastOp.op = "handle.update" /\ lastOp.eff =>
        LET v == lastOp.view
            item == lastOp.arg[1]
            element == WithId(container, properties, idOf(v))[1]
        IN  textOf[element] =
                IF item.message # Undefined /\ item.message # Some("")
                THEN properties[v].text \o ": " \o item.message[1]
                ELSE properties[v].text

(* update({}) on a displayed progress notification that an earlier update  *)
(* had written to: the text is again the text it was built with.           *)
C10_Witness ==
    \E v \in handles :
        /\ lastOp = OpWith("handle.update", v, TRUE,
                           Some([message |-> Undefined, work |-> Undefined]))
        /\ inContainer(v)
        /\ WithId(container, properties, idOf(v))[1] = v
        /\ textOf[v] = properties[v].text
        /\ progressOf[v] # ""

(* C11: after update({work: {done, total}}) with 0 <= done <= total and    *)
(* total > 0 on a displayed progress notification, the progress paragraph  *)
(* holds the integer part of done * 100 / total followed by "%".  The code *)
(* divides first, in doubles: 29 / 50 * 100 is 57.99999999999999 and the   *)
(* paragraph holds "57%".                                                  *)
C11_PercentFloor ==
    /\ lastOp.op = "handle.update" /\ lastOp.eff
    /\ lastOp.arg[1].work # Undefined
    /\ lastOp.arg[1].work[1].total > 0
    /\ lastOp.arg[1].work[1].done <= lastOp.arg[1].work[1].total
    => LET work == lastOp.arg[1].work[1]
           shown == SelectSeq(container,
                       LAMBDA w : properties[w].id = idOf(lastOp.view)
                                  /\ properties[w].icon = PROGRESS)
       IN  shown # <<>> =>
              progressOf[shown[1]] =
                  ToString((work.done * 100) \div work.total) \o "%"

(* C12: dispose() leaves the nodes of the container, their texts and the  *)
(* timers as they are; it drops the listeners of the show event.           *)
C12_DisposeFrame ==
    [][lastOp'.op = "dispose" =>
          /\ container' = container
          /\ fragment' = fragment
          /\ textOf' = textOf /\ progressOf' = progressOf
          /\ timers' = timers /\ closeTimer' = closeTimer
          /\ listeners' = {}]_vars

(* dispose() was called with two nodes displayed and a timer pending. *)
C12_Witness ==
    /\ lastOp.op = "dispose"
    /\ Len(container) = 2
    /\ \E h \in 1..Len(timers) : timers[h].state = "pending"
    /\ listeners = {}

(* C13: a ShownEvent, a click, a timer callback or a close() of a view     *)
(* leaves alone every view with another id: its closeTimer, its timers and *)
(* whether its node is in the container.                                   *)
C13_NoCrossNotification ==
    [][lastOp'.op \in {"show", "handle.show", "click", "timeout", "handle.close"} =>
          \A w \in Views :
              idOf(w) # properties'[lastOp'.view].id =>
                  /\ closeTimer'[w] = closeTimer[w]
                  /\ Len(timers') >= Len(timers)
                  /\ \A h \in 1..Len(timers') :
                        timers'[h].view = w =>
                            h <= Len(timers) /\ timers'[h] = timers[h]
                  /\ inContainer(w)' = inContainer(w)]_vars

(* The timer of a notification fired while the timer of a displayed        *)
(* notification with another id, armed before it, is still pending.        *)
C13_Witness ==
    \E x, w \in Views :
        /\ idOf(x) # idOf(w)
        /\ lastOp = Op("timeout", x, TRUE)
        /\ inContainer(w)
        /\ closeTimer[w] = 1 /\ closeTimer[x] = 2
        /\ timers[1] = [view |-> w, remaining |-> 0, state |-> "pending"]
        /\ timers[2].state = "fired"

(* C14: show() appends one new node at the end of the container, whatever  *)
(* nodes carry its id, so the nodes with the id are one more than before;  *)
(* and it fires the ShownEvent: every registered listener with the id has  *)
(* a new timer.                                                            *)
C14_ShowDuplicates ==
    [][lastOp'.op = "show" =>
          LET v == lastOp'.view
              id == properties'[v].id
          IN  /\ v = Len(properties) + 1
              /\ container' = Append(container, v)
              /\ Len(WithId(container', properties', id)) =
                    Len(WithId(container, properties, id)) + 1
              /\ \A w \in listeners' :
                    properties'[w].id = id =>
                        /\ closeTimer'[w] > Len(timers)
                        /\ timers'[closeTimer'[w]].state = "pending"]_vars

(* show() was called twice with the same id: two nodes with the id are in  *)
(* the container, the first one before the second, each with its timer.    *)
C14_Witness ==
    /\ lastOp = Op("show", 2, TRUE)
    /\ idOf(1) = idOf(2)
    /\ container = <<1, 2>>
    /\ closeTimer[1] # 0 /\ closeTimer[2] # 0
    /\ pendingOf(1) # {} /\ pendingOf(2) # {}

(* C15: when the callback of a timer runs, the node of its view is in the  *)
(* container, where onTimeout finds it; onTimeout is invoked once, and     *)
(* the node is gone when the callback returns.  The timer of a view whose  *)
(* node close() removed, or whose node was never displayed, is still       *)
(* pending and fires with the node absent.                                 *)
C15_OnTimeoutBeforeRemoval ==
    [][\A h \in 1..Len(timers) :
          timers[h].state = "pending" /\ timers'[h].state = "fired" =>
              LET v == timers[h].view
              IN  /\ inContainer(v)
                  /\ onTimeoutCalls' = [onTimeoutCalls EXCEPT ![v] = @ + 1]
                  /\ ~inContainer(v)']_vars

(* C16: a view has at most one pending timer, and that one is the timer    *)
(* its closeTimer variable holds.                                          *)
C16_OnePendingTimer ==
    \A v \in Views :
        /\ Cardinality({h \in 1..Len(timers) :
                 timers[h].view = v /\ timers[h].state = "pending"}) <= 1
        /\ \A h \in 1..Len(timers) :
              timers[h].view = v /\ timers[h].state = "pending" => closeTimer[v] = h

(* Three timers were armed for one view: the first two were cleared and    *)
(* the third is pending.                                                   *)
C16_Witness ==
    \E v \in Views :
        /\ Len(timers) = 3
        /\ \A h \in 1..3 : timers[h].view = v
        /\ timers[1].state = "cleared" /\ timers[2].state = "cleared"
        /\ timers[3].state = "pending"
        /\ closeTimer[v] = 3

(* C17: onTimeout of a view built by create() is not invoked while its     *)
(* node is still in its fragment, that is before the show() of its handle  *)
(* has displayed it.  A show() of another notification with the same id    *)
(* arms the timer of the view, which then fires.                           *)
C17_NoTimeoutBeforeOwnShow ==
    [][\A v \in handles :
          v \in fragment => onTimeoutCalls'[v] = onTimeoutCalls[v]]_vars

(* C18: after the node of a view was removed by its timer or by a click,   *)
(* no timer is armed for the view and its onTimeout is not invoked, unless *)
(* its own handle is shown again.  A later ShownEvent for the id of the    *)
(* view, of a new notification, arms its timer again.                      *)
C18_RemovedNeverRearmed ==
    [][\A v \in Views :
          /\ actionCalls[v] > 0 \/ onTimeoutCalls[v] > 0
          /\ ~Did("handle.show", v)
          =>  /\ \A h \in 1..Len(timers') :
                    timers'[h].view = v /\ timers'[h].state = "pending" =>
                        h <= Len(timers) /\ timers[h].state = "pending"
              /\ onTimeoutCalls'[v] = onTimeoutCalls[v]]_vars

(* C19: close() and update() of a handle whose node is not in the          *)
(* container remove no node and change no text.  They look the node up by  *)
(* id and act on the node of another notification displayed with the id.   *)
C19_OwnSubtreeOnly ==
    [][\A v \in handles :
          /\ Did("handle.close", v) \/ Did("handle.update", v)
          /\ ~inContainer(v)
          =>  /\ container' = container
              /\ textOf' = textOf
              /\ progressOf' = progressOf]_vars

====
